---- MODULE Spec2Model ----
(***************************************************************************)
(* Model of streamlit_app.py: the RSI / trend indicators, the cached       *)
(* single-symbol history fetch with the analysis handler that uses it, and *)
(* the sector aggregation loop.                                            *)
(*                                                                         *)
(* Prices are integers (fixed-point units); every value derived from them  *)
(* by division is an exact rational, NaN or a signed infinity, following   *)
(* the IEEE/pandas rules the code relies on.                               *)
(***************************************************************************)
EXTENDS Integers, Sequences, FiniteSets, TLC

VARIABLES
    df_in,         \* indicators: the price series (closes) handed to the functions
    periods_in,    \* indicators: the window size handed to calculate_rsi
    rsi_out,       \* indicators: calculate_rsi's returned stream
    trend_out,     \* indicators: get_trend_signal's returned label
    computed,      \* indicators: which of the two have been called
    idx,           \* sector loop: number of universe members processed
    sector_data,   \* sector loop: the rows appended so far (run A)
    outcomes,      \* sector loop: provider outcome met for each processed member (run A)
    sector_data2,  \* sector loop: rows of a second, independent run (run B)
    outcomes2,     \* sector loop: provider outcomes of run B
    now,           \* cache: the clock, in seconds
    cache,         \* cache: st.cache_data store of fetch_stock_history
    calls,         \* cache: number of provider invocations so far
    nreq,          \* cache: number of analysis requests handled so far
    last           \* cache: what the latest analysis request did

vars == <<df_in, periods_in, rsi_out, trend_out, computed,
          idx, sector_data, outcomes, sector_data2, outcomes2,
          now, cache, calls, nreq, last>>

indVars == <<df_in, periods_in, rsi_out, trend_out, computed>>
secVars == <<idx, sector_data, outcomes, sector_data2, outcomes2>>
cacheVars == <<now, cache, calls, nreq, last>>

(***************************************************************************)
(* Floating-point values: a rational n/d (d > 0, lowest terms), NaN, or    *)
(* +/- infinity (n = 1 or -1).                                             *)
(***************************************************************************)
RECURSIVE GCD(_, _)
GCD(a, b) ==
    IF b = 0 THEN a ELSE GCD(b, a % b)

Abs(x) ==
    IF x < 0 THEN -x ELSE x

Sign(x) ==
    IF x < 0 THEN -1 ELSE IF x > 0 THEN 1 ELSE 0

NaN ==
    [k |-> "nan", n |-> 0, d |-> 1]

Inf(s) ==
    [k |-> "inf", n |-> s, d |-> 1]

Num(n, d) ==
    IF d = 1 THEN [k |-> "num", n |-> n, d |-> 1]
    ELSE LET g == GCD(Abs(n), Abs(d))
             s == IF d < 0 THEN -1 ELSE 1
         IN  [k |-> "num", n |-> s * (n \div g), d |-> s * (d \div g)]

FromInt(i) ==
    Num(i, 1)

IsNaN(a) ==
    a.k = "nan"

FNeg(a) ==
    IF a.k = "nan" THEN NaN
    ELSE IF a.k = "inf" THEN Inf(-a.n)
    ELSE Num(-a.n, a.d)

FAdd(a, b) ==
    IF a.k = "nan" \/ b.k = "nan" THEN NaN
    ELSE IF a.k = "inf" /\ b.k = "inf" THEN (IF a.n = b.n THEN a ELSE NaN)
    ELSE IF a.k = "inf" THEN a
    ELSE IF b.k = "inf" THEN b
    ELSE IF a.d = 1 /\ b.d = 1 THEN Num(a.n + b.n, 1)
    ELSE Num(a.n * b.d + b.n * a.d, a.d * b.d)

FSub(a, b) ==
    FAdd(a, FNeg(b))

FMul(a, b) ==
    IF a.k = "nan" \/ b.k = "nan" THEN NaN
    ELSE IF a.k = "inf" \/ b.k = "inf"
         THEN (IF a.n = 0 \/ b.n = 0 THEN NaN ELSE Inf(Sign(a.n) * Sign(b.n)))
    ELSE Num(a.n * b.n, a.d * b.d)

\* Division never raises on floats: x/0 is +/-inf for x # 0 and NaN for x = 0.
\* (The sign of a zero divisor can flip the infinity; 100/(1 + rs) is 0 for both.)
FDiv(a, b) ==
    IF a.k = "nan" \/ b.k = "nan" THEN NaN
    ELSE IF a.k = "inf" THEN (IF b.k = "inf" THEN NaN
                              ELSE Inf(a.n * (IF b.n < 0 THEN -1 ELSE 1)))
    ELSE IF b.k = "inf" THEN Num(0, 1)
    ELSE IF b.n = 0 THEN (IF a.n = 0 THEN NaN ELSE Inf(Sign(a.n)))
    ELSE Num(a.n * b.d, a.d * b.n)

\* a > b on floats: every comparison with NaN is false.
FGt(a, b) ==
    IF a.k = "nan" \/ b.k = "nan" THEN FALSE
    ELSE IF a.k = "inf" THEN (a.n = 1 /\ ~(b.k = "inf" /\ b.n = 1))
    ELSE IF b.k = "inf" THEN b.n = -1
    ELSE a.n * b.d > b.n * a.d

FLt(a, b) ==
    FGt(b, a)

(***************************************************************************)
(* pandas Series operations used by the indicators.  A Series is a         *)
(* sequence; position i of the code is index i + 1 here.                   *)
(***************************************************************************)
\* Series.diff(): NaN at the first position, then the bar-to-bar difference.
Diff(s) ==
    [i \in 1..Len(s) |-> IF i = 1 THEN NaN ELSE FromInt(s[i] - s[i - 1])]

\* delta.where(delta > 0, 0): keeps the entry where the condition is true and
\* puts 0 elsewhere; the condition is false for NaN.
WhereGain(delta, n) ==
    [i \in 1..n |-> IF FGt(delta[i], FromInt(0)) THEN delta[i] ELSE FromInt(0)]

\* -delta.where(delta < 0, 0)
WhereLoss(delta, n) ==
    [i \in 1..n |-> FNeg(IF FLt(delta[i], FromInt(0)) THEN delta[i] ELSE FromInt(0))]

RECURSIVE WindowSum(_, _, _)
WindowSum(s, lo, hi) ==
    IF lo > hi THEN FromInt(0)
    ELSE IF lo = hi THEN s[lo]
    ELSE LET mid == (lo + hi) \div 2
         IN  FAdd(WindowSum(s, lo, mid), WindowSum(s, mid + 1, hi))

\* Series.rolling(window=w).mean(): min_periods defaults to the window, so the
\* first w - 1 positions are NaN; a NaN inside the window gives NaN.
RollingMean(s, n, w) ==
    [i \in 1..n |-> IF i < w THEN NaN
                    ELSE FDiv(WindowSum(s, i - w + 1, i), FromInt(w))]

DefaultPeriods == 14

\* Variant that masks a zero average loss before dividing.
calculate_rsi_maskZeroLoss(data, periods) ==
    LET n     == Len(data)
        delta == Diff(data)
        gain  == RollingMean(WhereGain(delta, n), n, periods)
        loss  == RollingMean(WhereLoss(delta, n), n, periods)
    IN  [i \in 1..n |->
            LET rs == IF loss[i] = FromInt(0) THEN NaN ELSE FDiv(gain[i], loss[i])
            IN  FSub(FromInt(100), FDiv(FromInt(100), FAdd(FromInt(1), rs)))]

calculate_rsi(data, periods) ==
    LET n     == Len(data)
        delta == Diff(data)
        gain  == RollingMean(WhereGain(delta, n), n, periods)
        loss  == RollingMean(WhereLoss(delta, n), n, periods)
    IN  [i \in 1..n |->
            LET rs == FDiv(gain[i], loss[i])
            IN  FSub(FromInt(100), FDiv(FromInt(100), FAdd(FromInt(1), rs)))]

MinBars == 60
MA20Window == 20
MA60Window == 60
RsiMid == 50

Closes(df) ==
    [i \in 1..Len(df) |-> FromInt(df[i])]

get_trend_signal_noRsi(df) ==
    IF Len(df) < MinBars THEN "insufficient"
    ELSE LET n == Len(df)
             current_price == FromInt(df[n])
             ma20 == RollingMean(Closes(df), n, MA20Window)[n]
             ma60 == RollingMean(Closes(df), n, MA60Window)[n]
         IN  IF FGt(current_price, ma20) /\ FGt(ma20, ma60) THEN "bullish"
             ELSE IF FLt(current_price, ma20) /\ FLt(ma20, ma60) THEN "bearish"
             ELSE "consolidating"

\* Labels: "insufficient" = 數據不足, "bullish" = 多頭, "bearish" = 空頭,
\* "consolidating" = 盤整.
get_trend_signal(df) ==
    IF Len(df) < MinBars THEN "insufficient"
    ELSE LET n == Len(df)
             current_price == FromInt(df[n])
             ma20 == RollingMean(Closes(df), n, MA20Window)[n]
             ma60 == RollingMean(Closes(df), n, MA60Window)[n]
             rsi  == calculate_rsi(df, DefaultPeriods)[n]
         IN  IF FGt(current_price, ma20) /\ FGt(ma20, ma60)
                /\ FGt(rsi, FromInt(RsiMid)) THEN "bullish"
             ELSE IF FLt(current_price, ma20) /\ FLt(ma20, ma60)
                     /\ FLt(rsi, FromInt(RsiMid)) THEN "bearish"
             ELSE "consolidating"

(***************************************************************************)
(* Indicator inputs: short series over a few prices with any small window, *)
(* and long piecewise-linear series (a lead-in ramp followed by segments)   *)
(* around the 60-bar threshold.                                            *)
(***************************************************************************)
MaxShortLen == 4
NumSegments == 2

ShortPrices == {1, 2, 3}
SegLens == {1, 14}
Slopes == {-50, -1, 0, 1, 50}
LeadLen == MinBars - 15
LeadSlopes == {-1, 0, 1}
PeriodChoices == {1, 2, 3, DefaultPeriods}

Ramp(cur, len, slope) ==
    [i \in 1..len |-> cur + i * slope]

RECURSIVE BuildSeries(_, _)
BuildSeries(cur, segs) ==
    IF segs = <<>> THEN <<>>
    ELSE LET seg == Head(segs)
         IN  Ramp(cur, seg[1], seg[2])
                 \o BuildSeries(cur + seg[1] * seg[2], Tail(segs))

ShortSeries ==
    UNION {[1..k -> ShortPrices] : k \in 0..MaxShortLen}

LongSeries ==
    {BuildSeries(10000, <<<<LeadLen, ls>>>> \o segs) :
        ls \in LeadSlopes,
        segs \in UNION {[1..k -> SegLens \X Slopes] : k \in 1..NumSegments}}

SectorIdle ==
    /\ idx = 0
    /\ sector_data = <<>>
    /\ outcomes = <<>>
    /\ sector_data2 = <<>>
    /\ outcomes2 = <<>>

CacheIdle ==
    /\ now = 0
    /\ cache = {}
    /\ calls = 0
    /\ nreq = 0
    /\ last = [kind |-> "none"]

InitInd ==
    /\ \/ df_in \in ShortSeries /\ periods_in \in PeriodChoices
       \/ df_in \in LongSeries /\ periods_in = DefaultPeriods
    /\ rsi_out = <<>>
    /\ trend_out = "none"
    /\ computed = {}
    /\ SectorIdle
    /\ CacheIdle

\* A call calculate_rsi(df, periods).
ComputeRsi ==
    /\ "rsi" \notin computed
    /\ rsi_out' = calculate_rsi(df_in, periods_in)
    /\ computed' = computed \cup {"rsi"}
    /\ UNCHANGED <<df_in, periods_in, trend_out, secVars, cacheVars>>

\* A call get_trend_signal(df).
ComputeTrend ==
    /\ "trend" \notin computed
    /\ trend_out' = get_trend_signal(df_in)
    /\ computed' = computed \cup {"trend"}
    /\ UNCHANGED <<df_in, periods_in, rsi_out, secVars, cacheVars>>

NextInd ==
    \/ ComputeRsi
    \/ ComputeTrend

SpecInd ==
    InitInd /\ [][NextInd]_vars

(***************************************************************************)
(* Integer window sums taken straight from the price series, used to state *)
(* the indicator properties without the float operators.                   *)
(***************************************************************************)
RECURSIVE IntSum(_, _, _)
IntSum(s, lo, hi) ==
    IF lo > hi THEN 0
    ELSE IF lo = hi THEN s[lo]
    ELSE LET mid == (lo + hi) \div 2
         IN  IntSum(s, lo, mid) + IntSum(s, mid + 1, hi)

\* Sum of the rises (up = TRUE) or falls over the w bars ending at bar i, the
\* first bar of the series counting as no change.
RECURSIVE MoveSum(_, _, _, _)
MoveSum(s, i, w, up) ==
    IF w = 0 THEN 0
    ELSE LET dlt == IF i = 1 THEN 0 ELSE s[i] - s[i - 1]
             amt == IF up THEN (IF dlt > 0 THEN dlt ELSE 0)
                    ELSE (IF dlt < 0 THEN -dlt ELSE 0)
         IN  amt + MoveSum(s, i - 1, w - 1, up)

TrendFacts ==
    LET n   == Len(df_in)
        c   == df_in[n]
        s20 == IntSum(df_in, n - MA20Window + 1, n)
        s60 == IntSum(df_in, n - MA60Window + 1, n)
        g   == MoveSum(df_in, n, DefaultPeriods, TRUE)
        l   == MoveSum(df_in, n, DefaultPeriods, FALSE)
    IN  [up    |-> c * MA20Window > s20 /\ s20 * MA60Window > s60 * MA20Window,
         down  |-> c * MA20Window < s20 /\ s20 * MA60Window < s60 * MA20Window,
         rsiHi |-> g > l,
         rsiLo |-> g < l,
         rsiUndef |-> g = 0 /\ l = 0,
         flat  |-> c * MA20Window = s20 /\ s20 * MA60Window = s60 * MA20Window]

\* C8: get_trend_signal returns exactly one of four labels; "insufficient" iff
\* the series has fewer than 60 bars; with at least 60 bars it is bullish iff
\* close > MA20 > MA60 and RSI(14) > 50, bearish iff close < MA20 < MA60 and
\* RSI(14) < 50, and consolidating otherwise (flat series and undefined RSI
\* included).
C8_TrendClassification ==
    "trend" \in computed =>
        /\ trend_out \in {"insufficient", "bullish", "bearish", "consolidating"}
        /\ (trend_out = "insufficient") <=> (Len(df_in) < MinBars)
        /\ Len(df_in) >= MinBars =>
            LET f == TrendFacts
            IN  /\ (trend_out = "bullish") <=> (f.up /\ f.rsiHi)
                /\ (trend_out = "bearish") <=> (f.down /\ f.rsiLo)
                /\ (f.flat \/ f.rsiUndef) => trend_out = "consolidating"

\* A 60+-bar series whose close > MA20 > MA60 but whose RSI is below 50: the
\* RSI gate alone makes it consolidating.
C8_Witness ==
    /\ "trend" \in computed
    /\ Len(df_in) >= MinBars
    /\ TrendFacts.up
    /\ TrendFacts.rsiLo
    /\ trend_out = "consolidating"

\* C9: calculate_rsi returns a stream as long as its input whose first
\* `periods` entries (positions 0 .. periods-1) are all undefined.
C9_LeadingUndefined ==
    "rsi" \in computed =>
        /\ Len(rsi_out) = Len(df_in)
        /\ \A i \in 1..Len(df_in) : i <= periods_in => IsNaN(rsi_out[i])

\* Bars whose trailing `periods`-bar window is complete and holds no fall.
ZeroLossBars ==
    {i \in 1..Len(df_in) :
        i >= periods_in /\ MoveSum(df_in, i, periods_in, FALSE) = 0}

SP500_SECTORS ==
    << <<"XLK", "Technology">>, <<"XLF", "Financial">>, <<"XLV", "Healthcare">>,
       <<"XLY", "Consumer">>, <<"XLC", "Communication">>, <<"XLI", "Industrial">>,
       <<"XLP", "Staples">>, <<"XLE", "Energy">>, <<"XLRE", "Real Estate">>,
       <<"XLB", "Materials">>, <<"XLU", "Utilities">> >>

\* The loop is checked over the first NumSectors members of the universe.
NumSectors == 3

Universe ==
    SubSeq(SP500_SECTORS, 1,
           IF NumSectors < Len(SP500_SECTORS) THEN NumSectors ELSE Len(SP500_SECTORS))

\* What the provider does for one member: yf.Ticker(..).history raising or
\* returning bars (index timestamps and closes), whether the index entries
\* can be formatted, whether the frame has a Close column, and stock.info
\* raising or holding previousClose (absent, a number, or a non-number).
Bar(day, close) ==
    [ts |-> [y |-> 2024, m |-> 1, d |-> day], close |-> close]

PrevNone == [t |-> "none", v |-> 0]
PrevNum(v) == [t |-> "num", v |-> v]
PrevStr == [t |-> "str", v |-> 0]

Provider(hist, prev) ==
    [historyRaises |-> FALSE, hist |-> hist, datesOk |-> TRUE, hasClose |-> TRUE,
     infoRaises |-> FALSE, prevClose |-> prev]

Hist0 == <<>>
Hist1 == <<Bar(5, 50)>>
Hist2 == <<Bar(4, 100), Bar(5, 105)>>
Hist3 == <<Bar(3, 100), Bar(4, 100), Bar(5, 98)>>

SectorOutcomes ==
    {[Provider(Hist2, PrevNum(49)) EXCEPT !.historyRaises = TRUE]}
    \cup {Provider(h, PrevNum(49)) : h \in {Hist0, Hist2, Hist3}}
    \cup {Provider(Hist1, p) : p \in {PrevNone, PrevNum(0), PrevNum(49), PrevStr}}
    \cup {[Provider(h, PrevNum(49)) EXCEPT !.datesOk = FALSE] : h \in {Hist1, Hist2}}
    \cup {[Provider(h, PrevNum(49)) EXCEPT !.hasClose = FALSE] : h \in {Hist1, Hist2}}
    \cup {[Provider(Hist1, PrevNum(49)) EXCEPT !.infoRaises = TRUE]}

IsoOutcomes ==
    {[Provider(Hist2, PrevNum(49)) EXCEPT !.historyRaises = TRUE],
     Provider(Hist0, PrevNum(49)),
     Provider(Hist1, PrevNone),
     Provider(Hist1, PrevNum(49)),
     Provider(Hist2, PrevNum(49))}

Pad2(n) ==
    IF n < 10 THEN "0" \o ToString(n) ELSE ToString(n)

\* Timestamp.strftime('%Y-%m-%d')
Strftime(ts) ==
    ToString(ts.y) \o "-" \o Pad2(ts.m) \o "-" \o Pad2(ts.d)

\* ((current - previous) / previous) * 100
PercentChange(current, previous) ==
    FMul(FDiv(FSub(FromInt(current), FromInt(previous)), FromInt(previous)),
         FromInt(100))

\* The row built at the top of each iteration.
DefaultRow(ticker, name) ==
    [sector |-> name, ticker |-> ticker, change |-> FromInt(0),
     status |-> "no_data", today |-> "N/A", yesterday |-> "N/A"]

\* The try block of one iteration, started from `row`: the row as it stands
\* when the block ends, and whether it ended by an exception.  The row is
\* updated in place, so assignments made before a raise stay.
ProcessMember(row, o) ==
    LET n == Len(o.hist)
        Out(r, e) == [row |-> r, raised |-> e]
    IN  IF o.historyRaises THEN Out(row, TRUE)
        ELSE IF n >= 2 THEN
            IF ~o.datesOk THEN Out(row, TRUE)
            ELSE LET r2 == [row EXCEPT !.today = Strftime(o.hist[n].ts),
                                       !.yesterday = Strftime(o.hist[n - 1].ts)]
                 IN  IF ~o.hasClose THEN Out(r2, TRUE)
                     ELSE Out([r2 EXCEPT
                                 !.change = PercentChange(o.hist[n].close,
                                                          o.hist[n - 1].close),
                                 !.status = "ok"], FALSE)
        ELSE IF n = 1 THEN
            IF ~o.datesOk THEN Out(row, TRUE)
            ELSE LET r1 == [row EXCEPT !.today = Strftime(o.hist[n].ts)]
                 IN  IF ~o.hasClose \/ o.infoRaises THEN Out(r1, TRUE)
                     ELSE IF o.prevClose.t = "none" THEN Out(r1, FALSE)
                     ELSE IF o.prevClose.t = "str" THEN Out(r1, TRUE)
                     ELSE IF o.prevClose.v = 0 THEN Out(r1, FALSE)
                     ELSE Out([r1 EXCEPT
                                 !.change = PercentChange(o.hist[n].close,
                                                          o.prevClose.v),
                                 !.yesterday = "PrevClose API",
                                 !.status = "ok"], FALSE)
        ELSE Out(row, FALSE)

\* Variant with the append inside the try block.
LoopBody_appendInTry(rows, ticker, name, o) ==
    LET res == ProcessMember(DefaultRow(ticker, name), o)
    IN  IF res.raised THEN rows ELSE Append(rows, res.row)

\* Variant with one row dict created before the loop and reused.
LoopBody_sharedRow(rows, ticker, name, o) ==
    LET start == IF rows = <<>> THEN DefaultRow(ticker, name)
                 ELSE [rows[Len(rows)] EXCEPT !.sector = name, !.ticker = ticker]
    IN  Append(rows, ProcessMember(start, o).row)

\* One iteration of the for loop: fresh default row, try block, append.
LoopBody(rows, ticker, name, o) ==
    Append(rows, ProcessMember(DefaultRow(ticker, name), o).row)

IndIdle ==
    /\ df_in = <<>>
    /\ periods_in = DefaultPeriods
    /\ rsi_out = <<>>
    /\ trend_out = "none"
    /\ computed = {}

InitSector ==
    /\ SectorIdle
    /\ IndIdle
    /\ CacheIdle

\* One iteration of fetch_sector_performance, for any provider outcome.
SectorStep ==
    /\ idx < Len(Universe)
    /\ \E o \in SectorOutcomes :
          /\ sector_data' = LoopBody(sector_data, Universe[idx + 1][1],
                                     Universe[idx + 1][2], o)
          /\ outcomes' = Append(outcomes, o)
    /\ idx' = idx + 1
    /\ UNCHANGED <<sector_data2, outcomes2, indVars, cacheVars>>

NextSector ==
    SectorStep

SpecSector ==
    InitSector /\ [][NextSector]_vars

\* Two aggregation runs side by side, each member meeting its own outcome in
\* each run.
IsoStep ==
    /\ idx < Len(Universe)
    /\ \E oA \in IsoOutcomes, oB \in IsoOutcomes :
          /\ sector_data' = LoopBody(sector_data, Universe[idx + 1][1],
                                     Universe[idx + 1][2], oA)
          /\ outcomes' = Append(outcomes, oA)
          /\ sector_data2' = LoopBody(sector_data2, Universe[idx + 1][1],
                                      Universe[idx + 1][2], oB)
          /\ outcomes2' = Append(outcomes2, oB)
    /\ idx' = idx + 1
    /\ UNCHANGED <<indVars, cacheVars>>

NextIso ==
    IsoStep

SpecIso ==
    InitSector /\ [][NextIso]_vars

\* The member's processing ended by an exception.
Raises(o) ==
    \/ o.historyRaises
    \/ Len(o.hist) >= 1 /\ (~o.datesOk \/ ~o.hasClose)
    \/ Len(o.hist) = 1 /\ (o.infoRaises \/ o.prevClose.t = "str")

\* C1: whatever the members' provider outcomes, the rows are exactly one per
\* universe member in universe order: after k iterations the row tickers are
\* the first k keys of the universe, and all of them when the loop is done.
C1_OneRowPerMember ==
    /\ Len(sector_data) = idx
    /\ \A i \in 1..Len(sector_data) : sector_data[i].ticker = Universe[i][1]
    /\ idx = Len(Universe) =>
          [i \in 1..Len(sector_data) |-> sector_data[i].ticker]
              = [i \in 1..Len(Universe) |-> Universe[i][1]]

\* The loop has finished with every member failing by an exception.
C1_Witness ==
    /\ idx = Len(Universe)
    /\ Len(outcomes) = Len(Universe)
    /\ \A i \in 1..Len(outcomes) : Raises(outcomes[i])
    /\ Len(sector_data) = Len(Universe)

\* C2: a member's row depends only on its own provider outcome: in two runs
\* where member i meets the same outcome, its rows are identical, whatever
\* the other members meet.
C2_Isolation ==
    \A i \in 1..idx :
        outcomes[i] = outcomes2[i] => sector_data[i] = sector_data2[i]

\* Two finished runs agree on the last member's successful outcome while every
\* earlier member fails, is empty or lacks the snapshot in one run and
\* succeeds in the other.
C2_Witness ==
    /\ idx = Len(Universe)
    /\ Len(outcomes2) = idx
    /\ outcomes[idx] = outcomes2[idx]
    /\ sector_data[idx].status = "ok"
    /\ sector_data2[idx] = sector_data[idx]
    /\ \A j \in 1..(idx - 1) :
          /\ sector_data[j].status = "no_data"
          /\ sector_data2[j].status = "ok"
    /\ \E j \in 1..(idx - 1) : outcomes[j].historyRaises
    /\ \E j \in 1..(idx - 1) : outcomes[j].hist = <<>> \/ outcomes[j].prevClose.t = "none"

\* C3: a member whose fetch returns 0 bars, or whose processing raises at any
\* step, gets the default row in every field.
C3_FailureKeepsDefault ==
    \A i \in 1..Len(sector_data) :
        (Len(outcomes[i].hist) = 0 \/ Raises(outcomes[i])) =>
            sector_data[i] = DefaultRow(Universe[i][1], Universe[i][2])

(***************************************************************************)
(* Single-symbol analysis: the ticker input, fetch_stock_history behind    *)
(* st.cache_data(ttl=300), and the analysis branch of the main script.     *)
(***************************************************************************)
TTL == 300
MaxRequests == 3
MaxTicks == 2

TickStep == TTL \div 2

\* Symbols are sequences of characters.
POPULAR_STOCKS == {<<"V">>}
ManualInputs == {<<"v">>, <<"V">>, <<" ", "v">>}
Periods == {"1mo", "6mo"}

UpperChar(c) ==
    CASE c = "v" -> "V"
      [] c = "a" -> "A"
      [] c = "m" -> "M"
      [] OTHER -> c

\* str.upper()
Upper(s) ==
    [i \in 1..Len(s) |-> UpperChar(s[i])]

RECURSIVE LStrip(_)
LStrip(s) ==
    IF s # <<>> /\ Head(s) = " " THEN LStrip(Tail(s)) ELSE s

RECURSIVE RStrip(_)
RStrip(s) ==
    IF s # <<>> /\ s[Len(s)] = " " THEN RStrip(SubSeq(s, 1, Len(s) - 1)) ELSE s

\* Trim surrounding whitespace, then uppercase.
Normalize(s) ==
    Upper(RStrip(LStrip(s)))

\* The ticker the script passes on: a POPULAR_STOCKS entry as it is, or the text
\* input after .upper().
TickerOf(method, raw) ==
    IF method = "select" THEN raw ELSE Upper(raw)

\* What stock.history(period=..) does: raises, or returns a frame of closes.
Responses ==
    {[raises |-> TRUE, bars |-> <<>>],
     [raises |-> FALSE, bars |-> <<>>],
     [raises |-> FALSE, bars |-> <<100>>],
     [raises |-> FALSE, bars |-> <<100, 105>>]}

NoResponse == [raises |-> FALSE, bars |-> <<>>]

Returned(noneVal, df) ==
    [raised |-> FALSE, none |-> noneVal, df |-> df]

Raised ==
    [raised |-> TRUE, none |-> TRUE, df |-> <<>>]

\* Variant without the try/except: the provider's exception propagates.
fetch_stock_history_noCatch(resp) ==
    IF resp.raises THEN Raised
    ELSE IF resp.bars = <<>> THEN Returned(TRUE, <<>>)
    ELSE Returned(FALSE, resp.bars)

\* The body of fetch_stock_history: None for an exception or an empty frame.
fetch_stock_history(resp) ==
    IF resp.raises THEN Returned(TRUE, <<>>)
    ELSE IF resp.bars = <<>> THEN Returned(TRUE, <<>>)
    ELSE Returned(FALSE, resp.bars)

\* Variant that still serves an entry whose age equals the TTL.
IsFresh_inclusive(e, t) ==
    t - e.at <= TTL

\* An entry stored at e.at is served while the clock is before e.at + ttl.
IsFresh(e, t) ==
    t - e.at < TTL

\* st.cache_data around fetch_stock_history, keyed by the call's arguments: a
\* fresh entry is returned without running the body; otherwise the body runs
\* and its return value (None included) replaces the key's entry; a raised
\* exception is not stored.  `src` notes which provider outcome an entry came
\* from and is read by nothing in the program.
CachedFetch(store, t, key, resp) ==
    LET fresh == {e \in store : e.key = key /\ IsFresh(e, t)}
    IN  IF fresh # {}
        THEN LET e == CHOOSE e \in fresh : TRUE
             IN  [store |-> store, hit |-> TRUE, ret |-> e.value, src |-> e.src]
        ELSE LET ret == fetch_stock_history(resp)
                 src == IF resp.raises THEN "raise"
                        ELSE IF resp.bars = <<>> THEN "empty" ELSE "data"
                 kept == {e \in store : e.key # key}
             IN  IF ret.raised
                 THEN [store |-> kept, hit |-> FALSE, ret |-> ret, src |-> src]
                 ELSE [store |-> kept \cup {[key |-> key, value |-> ret,
                                             at |-> t, src |-> src]},
                       hit |-> FALSE, ret |-> ret, src |-> src]

\* The analysis branch once df is known: "unavailable" is the st.error branch,
\* "raised" an uncaught exception, "shown" the three metrics.
Analysis(ret) ==
    IF ret.raised THEN [state |-> "raised", change |-> NaN, rsi |-> NaN, trend |-> "none"]
    ELSE IF ret.none THEN [state |-> "unavailable", change |-> NaN, rsi |-> NaN,
                           trend |-> "none"]
    ELSE LET df == ret.df
             n  == Len(df)
         IN  IF n < 2
             THEN [state |-> "raised", change |-> NaN, rsi |-> NaN, trend |-> "none"]
             ELSE [state  |-> "shown",
                   change |-> PercentChange(df[n], df[n - 1]),
                   rsi    |-> calculate_rsi(df, DefaultPeriods)[n],
                   trend  |-> get_trend_signal(df)]

NoRequest ==
    [kind |-> "none", key |-> <<<<>>, "">>, hit |-> FALSE,
     resp |-> NoResponse, src |-> "", value |-> Returned(TRUE, <<>>),
     analysis |-> [state |-> "none", change |-> NaN, rsi |-> NaN, trend |-> "none"]]

InitCache ==
    /\ now = 0
    /\ cache = {}
    /\ calls = 0
    /\ nreq = 0
    /\ last = NoRequest
    /\ IndIdle
    /\ SectorIdle

\* A press of the analysis button with the ticker chosen by `method`.
Analyze(method, raw, period, resp) ==
    /\ nreq < MaxRequests
    /\ LET key == <<TickerOf(method, raw), period>>
           got == CachedFetch(cache, now, key, resp)
       IN  /\ cache' = got.store
           /\ calls' = IF got.hit THEN calls ELSE calls + 1
           /\ last' = [kind |-> "req", key |-> key, hit |-> got.hit,
                       resp |-> IF got.hit THEN NoResponse ELSE resp,
                       src |-> got.src, value |-> got.ret,
                       analysis |-> Analysis(got.ret)]
    /\ nreq' = nreq + 1
    /\ UNCHANGED <<now, indVars, secVars>>

AnalyzeSelected ==
    \E raw \in POPULAR_STOCKS, period \in Periods, resp \in Responses :
        Analyze("select", raw, period, resp)

AnalyzeTyped ==
    \E raw \in ManualInputs, period \in Periods, resp \in Responses :
        Analyze("text", raw, period, resp)

\* Time passes.
Tick ==
    /\ now < MaxTicks * TickStep
    /\ now' = now + TickStep
    /\ UNCHANGED <<cache, calls, nreq, last, indVars, secVars>>

NextCache ==
    \/ AnalyzeSelected
    \/ AnalyzeTyped
    \/ Tick

SpecCache ==
    InitCache /\ [][NextCache]_vars

\* C4: a request whose key has an entry younger than the TTL is answered with
\* the stored value without a provider call and leaves the cache as it was;
\* any other request (no entry, or age >= TTL) calls the provider once and
\* returns and stores, stamped with the current time, what the provider gives
\* now.
C4_CacheFreshness ==
    [][nreq' = nreq + 1 =>
        LET key   == last'.key
            young == {e \in cache : e.key = key /\ now - e.at < TTL}
        IN  IF young # {}
            THEN /\ last'.hit
                 /\ calls' = calls
                 /\ cache' = cache
                 /\ \A e \in young : last'.value = e.value
            ELSE /\ ~last'.hit
                 /\ calls' = calls + 1
                 /\ ~last'.resp.raises /\ last'.resp.bars # <<>> =>
                       last'.value = Returned(FALSE, last'.resp.bars)
                 /\ last'.resp.raises \/ last'.resp.bars = <<>> => last'.value.none
                 /\ \E e \in cache' :
                       e.key = key /\ e.at = now /\ e.value = last'.value
                 /\ Cardinality({e \in cache' : e.key = key}) = 1]_vars

\* A request was served stored data from an entry of positive age below the
\* TTL, with a single provider call made so far.
C4_Witness ==
    /\ last.kind = "req"
    /\ last.hit
    /\ ~last.value.none
    /\ calls = 1
    /\ nreq >= 2
    /\ \E e \in cache :
          e.key = last.key /\ now - e.at > 0 /\ now - e.at < TTL

\* C5: a miss whose provider call raises leaves no cache entry for its key.
C5_NoEntryAfterError ==
    (last.kind = "req" /\ ~last.hit /\ last.resp.raises) =>
        ~(\E e \in cache : e.key = last.key)

\* C5 (amended): a miss whose provider call raises returns None and stores it
\* for the key, and a later request for that key made before the entry is TTL
\* old is answered None without a provider call.
C5_ErrorCachedAsNone ==
    [][nreq' = nreq + 1 =>
        /\ (~last'.hit /\ last'.resp.raises) =>
              /\ last'.value.none
              /\ ~last'.value.raised
              /\ \E e \in cache' :
                    e.key = last'.key /\ e.at = now /\ e.value.none
        /\ \A e \in cache :
              (e.key = last'.key /\ e.src = "raise" /\ now - e.at < TTL) =>
                  /\ calls' = calls
                  /\ last'.value.none
                  /\ ~last'.value.raised]_vars

\* A request was answered from an entry stored by a raising provider call.
C5_Witness ==
    /\ last.kind = "req"
    /\ last.hit
    /\ last.src = "raise"
    /\ last.value.none

\* C6: cache keys carry the normalised symbol (trimmed, upper case), so no two
\* entries exist whose symbols differ only in case or surrounding whitespace
\* for the same period.
C6_NormalizedKeys ==
    /\ \A e \in cache : e.key[1] = Normalize(e.key[1])
    /\ \A e1, e2 \in cache :
          (Normalize(e1.key[1]) = Normalize(e2.key[1]) /\ e1.key[2] = e2.key[2])
              => e1.key = e2.key

\* C7: the analysis step never ends in an uncaught exception.
C7_AnalysisNeverRaises ==
    last.kind = "req" => last.analysis.state # "raised"

====
